---- MODULE Spec2Model ----
(***************************************************************************)
(* Model of shift_decoder.py: a Caesar-shift decoder that estimates shift  *)
(* keys by letter-frequency analysis and offers an interactive loop.       *)
(*                                                                         *)
(* Characters are their code points (ord), strings are sequences of code   *)
(* points.  A percentage p = count / total * 100 is kept as the exact      *)
(* rational <<100 * count, total>>; the reference table is kept in         *)
(* thousandths of a percent.  A call that raises is a record whose err     *)
(* field names the exception.                                              *)
(***************************************************************************)
EXTENDS Integers, Sequences, FiniteSets, TLC

VARIABLES
    ciphertext,       \* the text under analysis / the session's stored ciphertext
    shift_key,        \* the key handed to shift
    cleartext,        \* what shift(ciphertext, shift_key) produced
    back,             \* what shift(cleartext, -shift_key) produced
    text_freq,        \* what freq(ciphertext) produced
    shift_keys,       \* what get_shift_keys(ciphertext, text_freq) produced
    printed,          \* what eval_ciphertext / the last command printed
    freq_percentage,  \* the percentage handed to closest_letter
    closest,          \* what closest_letter(freq_percentage) returned
    cmd,              \* the line main's loop read last
    pc                \* position of the running call or of main's loop

shiftVars == <<shift_key, cleartext, back>>
evalVars == <<text_freq, shift_keys>>
closestVars == <<freq_percentage, closest>>
vars == <<ciphertext, shiftVars, evalVars, printed, closestVars, cmd, pc>>

----------------------------------------------------------------------------
(* Bounds of the model *)

MaxShiftLen == 2      \* longest enumerated text handed to shift
MaxKey == 93          \* shift keys range over -MaxKey .. MaxKey
MaxEvalLen == 4       \* longest enumerated text handed to eval_ciphertext
MaxHundredths == 1500 \* closest_letter is tried on 0.00 .. MaxHundredths / 100 percent
MaxCmdLen == 2        \* longest enumerated text of a file or of a new command
MaxCmdKey == 4        \* shift commands name the amounts -MaxCmdKey .. MaxCmdKey

----------------------------------------------------------------------------
(* Characters *)

OrdA == 65            \* ord("A")
OrdZ == 90            \* ord("Z")
OrdAt == 64           \* ord("@")
OrdBracket == 91      \* ord("[")
MaxCodePoint == 1114111   \* chr() accepts 0 .. 0x10FFFF

UpperLetters == OrdA .. OrdZ
LowerLetters == 97 .. 122

\* str.isalpha() on one character, for the code points below 400
IsAlpha(c) ==
    \/ c \in UpperLetters
    \/ c \in LowerLetters
    \/ c \in {170, 181, 186}
    \/ c \in 192 .. 214
    \/ c \in 216 .. 246
    \/ c \in 248 .. 399

\* str.upper() on ASCII text
UpperChar(c) == IF c \in LowerLetters THEN c - 32 ELSE c
Upper(s) == [i \in 1 .. Len(s) |-> UpperChar(s[i])]

\* str.lower() on ASCII text
LowerChar(c) == IF c \in UpperLetters THEN c + 32 ELSE c
Lower(s) == [i \in 1 .. Len(s) |-> LowerChar(s[i])]

Ok(v) == [err |-> "", val |-> v]
Raise(e) == [err |-> e, val |-> <<>>]

----------------------------------------------------------------------------
(* shift *)

\* The code point shift appends for one input character: one boundary
\* correction only, then chr(), which raises outside 0 .. 0x10FFFF (-1 here).
ShiftChar(letter, k) ==
    IF IsAlpha(letter)
    THEN LET new_letter == letter + k
             wrapped ==
                 IF new_letter > OrdZ THEN OrdAt + new_letter - OrdZ
                 ELSE IF new_letter < OrdA THEN OrdBracket + new_letter - OrdA
                 ELSE new_letter
         IN  IF wrapped >= 0 /\ wrapped <= MaxCodePoint THEN wrapped ELSE -1
    ELSE letter

shift(text, k) ==
    IF \E i \in 1 .. Len(text) : ShiftChar(text[i], k) = -1
    THEN Raise("ValueError")
    ELSE Ok([i \in 1 .. Len(text) |-> ShiftChar(text[i], k)])

----------------------------------------------------------------------------
(* freq *)

Zero == <<0, 1>>      \* the integer 0 an untouched entry of empty_freq_dict keeps

\* Positions of the text that the loops "if letter.isalpha()" visit
AlphaPositions(text) == {i \in 1 .. Len(text) : IsAlpha(text[i])}

\* A total that counts every character, alphabetic or not
FreqTotalOfAll(text) == Len(text)

\* "total += 1": once per alphabetic character
FreqTotal(text) == Cardinality(AlphaPositions(text))

\* "freq_dict[letter] += 1" raises KeyError for a letter that is no key of
\* empty_freq_dict; the division runs only for entries that are not 0.
freq(text) ==
    LET total == FreqTotal(text)
        count(l) == Cardinality({i \in AlphaPositions(text) : text[i] = l})
    IN  IF \E i \in AlphaPositions(text) : text[i] \notin UpperLetters
        THEN Raise("KeyError")
        ELSE IF \E l \in UpperLetters : count(l) # 0 /\ total = 0
        THEN Raise("ZeroDivisionError")
        ELSE Ok([l \in UpperLetters |->
                    IF count(l) # 0 THEN <<100 * count(l), total>> ELSE Zero])

----------------------------------------------------------------------------
(* closest_letter *)

\* english_letter_frequency(): the letters in the order the dictionary
\* literal lists them (the order Python iterates it in) ...
StdOrder ==
    <<69, 84, 65, 79, 73, 78, 83, 72, 82, 68, 76, 67, 85,
      77, 87, 70, 71, 89, 80, 66, 86, 75, 74, 88, 81, 90>>

\* ... and their percentages, in thousandths of a percent.
StdMilli ==
    <<12702, 9056, 8167, 7507, 6966, 6749, 6327, 6094, 5987, 4253, 4025, 2782, 2758,
      2406, 2360, 2228, 2015, 1974, 1929, 1492, 978, 772, 153, 150, 95, 74>>

Abs(x) == IF x < 0 THEN 0 - x ELSE x

\* abs(float(val) - freq_percentage) for the j-th entry, times 1000 * p[2]
FreqDiff(j, p) == Abs(StdMilli[j] * p[2] - 1000 * p[1])

\* A search that keeps the last minimal value instead of the first
closest_letter_last(p) ==
    LET n == Len(StdOrder)
        best == CHOOSE j \in 1 .. n :
                    /\ \A m \in 1 .. n : FreqDiff(j, p) <= FreqDiff(m, p)
                    /\ \A m \in (j + 1) .. n : FreqDiff(m, p) > FreqDiff(j, p)
    IN  StdOrder[best]

\* min(values, key=...) returns the first minimal value in iteration order;
\* the loop then returns the first letter holding that value.
closest_letter(p) ==
    LET n == Len(StdOrder)
        best == CHOOSE j \in 1 .. n :
                    /\ \A m \in 1 .. n : FreqDiff(j, p) <= FreqDiff(m, p)
                    /\ \A m \in 1 .. (j - 1) : FreqDiff(m, p) > FreqDiff(j, p)
        closest_val == StdMilli[best]
        first == CHOOSE j \in 1 .. n :
                    /\ StdMilli[j] = closest_val
                    /\ \A m \in 1 .. (j - 1) : StdMilli[m] # closest_val
    IN  StdOrder[first]

----------------------------------------------------------------------------
(* get_shift_keys *)

\* The difference taken the other way round
ShiftNumReversed(letter, freqs) == letter - closest_letter(freqs[letter])

\* shift_num = ord(cleartext_letter) - ord(letter)
ShiftNum(letter, freqs) == closest_letter(freqs[letter]) - letter

\* shift_num of every alphabetic character, in text order
RECURSIVE ShiftNums(_, _, _)
ShiftNums(text, freqs, i) ==
    IF i > Len(text) THEN <<>>
    ELSE IF IsAlpha(text[i])
    THEN <<ShiftNum(text[i], freqs)>> \o ShiftNums(text, freqs, i + 1)
    ELSE ShiftNums(text, freqs, i + 1)

\* shift_freq: keys in insertion order, with their tallies
RECURSIVE Tally(_, _, _)
Tally(nums, i, d) ==
    IF i > Len(nums) THEN d
    ELSE LET k == nums[i]
             d1 == IF \E j \in 1 .. Len(d.keys) : d.keys[j] = k THEN d
                   ELSE [keys |-> Append(d.keys, k), n |-> Append(d.n, 0)]
             at == CHOOSE j \in 1 .. Len(d1.keys) : d1.keys[j] = k
         IN  Tally(nums, i + 1, [keys |-> d1.keys, n |-> [d1.n EXCEPT ![at] = @ + 1]])

VotesOf(d, k) == d.n[CHOOSE j \in 1 .. Len(d.keys) : d.keys[j] = k]

\* A sort that puts a key in front of the keys with as many votes
InsertByVotesUnstable(res, k, d) ==
    LET behind == {j \in 1 .. Len(res) : VotesOf(d, res[j]) > VotesOf(d, k)}
        m == Cardinality(behind)
    IN  SubSeq(res, 1, m) \o <<k>> \o SubSeq(res, m + 1, Len(res))

\* sorted(..., key=votes, reverse=True) is stable: a key goes behind every
\* key already placed that has at least as many votes.
InsertByVotes(res, k, d) ==
    LET behind == {j \in 1 .. Len(res) : VotesOf(d, res[j]) >= VotesOf(d, k)}
        m == Cardinality(behind)
    IN  SubSeq(res, 1, m) \o <<k>> \o SubSeq(res, m + 1, Len(res))

RECURSIVE SortedByVotes(_, _, _)
SortedByVotes(d, i, res) ==
    IF i > Len(d.keys) THEN res
    ELSE SortedByVotes(d, i + 1, InsertByVotes(res, d.keys[i], d))

TopThree(ranked) ==
    IF Len(ranked) < 3 THEN Raise("IndexError")
    ELSE Ok(<<ranked[1], ranked[2], ranked[3]>>)

get_shift_keys(text, freqs) ==
    IF \E i \in AlphaPositions(text) : text[i] \notin DOMAIN freqs
    THEN Raise("KeyError")
    ELSE LET shift_freq == Tally(ShiftNums(text, freqs, 1), 1, [keys |-> <<>>, n |-> <<>>])
         IN  TopThree(SortedByVotes(shift_freq, 1, <<>>))

----------------------------------------------------------------------------
(* eval_ciphertext: what it prints, or the exception that leaves it *)

eval_ciphertext(text) ==
    LET up == Upper(text)
        f == freq(up)
    IN  IF f.err # "" THEN Raise(f.err)
        ELSE LET ks == get_shift_keys(up, f.val)
             IN  IF ks.err # "" THEN Raise(ks.err)
                 ELSE LET decoded == shift(up, ks.val[1])
                      IN  IF decoded.err # "" THEN Raise(decoded.err)
                          ELSE Ok([best |-> ks.val[1], decoded |-> decoded.val,
                                   alt1 |-> ks.val[2], alt2 |-> ks.val[3]])

----------------------------------------------------------------------------
(* Inputs *)

HelloWorldPunct == <<72, 69, 76, 76, 79, 44, 32, 87, 79, 82, 76, 68, 33>>  \* "HELLO, WORLD!"

\* "A", "Z", "a", "z", " ", "5"
ShiftAlphabet == {65, 90, 97, 122, 32, 53}

SeqsUpTo(S, n) == UNION {[1 .. m -> S] : m \in 0 .. n}

ShiftTexts == SeqsUpTo(ShiftAlphabet, MaxShiftLen) \cup {HelloWorldPunct}
Keys == (0 - MaxKey) .. MaxKey

KhoorZruog == <<75, 72, 79, 79, 82, 32, 90, 82, 85, 79, 71>>   \* "KHOOR ZRUOG"
HelloWorld == <<72, 69, 76, 76, 79, 32, 87, 79, 82, 76, 68>>   \* "HELLO WORLD"

\* "A", "B", "E", "Z", "a", " "
EvalAlphabet == {65, 66, 69, 90, 97, 32}

EvalTexts == SeqsUpTo(EvalAlphabet, MaxEvalLen) \cup {KhoorZruog, HelloWorldPunct}

Percentages == {<<h, 100>> : h \in 0 .. MaxHundredths}

----------------------------------------------------------------------------
(* Specification of shift as a pure function: shift, then shift back *)

InitShift ==
    /\ ciphertext \in ShiftTexts
    /\ shift_key \in Keys
    /\ cleartext = Ok(<<>>)
    /\ back = Ok(<<>>)
    /\ text_freq = Ok(<<>>)
    /\ shift_keys = Ok(<<>>)
    /\ printed = Ok(<<>>)
    /\ freq_percentage = <<0, 1>>
    /\ closest = 0
    /\ cmd = <<>>
    /\ pc = "call"

ShiftCall ==
    /\ pc = "call"
    /\ cleartext' = shift(ciphertext, shift_key)
    /\ pc' = "shifted"
    /\ UNCHANGED <<ciphertext, shift_key, back, evalVars, printed, closestVars, cmd>>

ShiftBack ==
    /\ pc = "shifted"
    /\ back' = IF cleartext.err # "" THEN cleartext
               ELSE shift(cleartext.val, 0 - shift_key)
    /\ pc' = "back"
    /\ UNCHANGED <<ciphertext, shift_key, cleartext, evalVars, printed, closestVars, cmd>>

NextShift == ShiftCall \/ ShiftBack

SpecShift == InitShift /\ [][NextShift]_vars

----------------------------------------------------------------------------
(* Claims about shift *)

IsUpperText(s) == \A i \in 1 .. Len(s) : s[i] \in UpperLetters

\* C1: for every uppercase letter c and every integer key k, shift maps c to
\* the letter at alphabet position (position(c) + k) mod 26.
C1_ShiftIsModular ==
    pc = "shifted" =>
        /\ cleartext.err = ""
        /\ \A i \in 1 .. Len(ciphertext) :
               ciphertext[i] \in UpperLetters =>
                   cleartext.val[i] = OrdA + ((ciphertext[i] - OrdA + shift_key) % 26)

\* C2: round trip: for a text T of uppercase letters only and any key K,
\* shift(shift(T, K), -K) = T.
C2_RoundTrip ==
    (pc = "back" /\ IsUpperText(ciphertext)) =>
        (back.err = "" /\ back.val = ciphertext)

\* C3: for every text and key, shift returns a string of the same length in
\* which every non-alphabetic character of the input is unchanged at its index.
C3_ShiftFrame ==
    pc = "shifted" =>
        /\ cleartext.err = ""
        /\ Len(cleartext.val) = Len(ciphertext)
        /\ \A i \in 1 .. Len(ciphertext) :
               ~IsAlpha(ciphertext[i]) => cleartext.val[i] = ciphertext[i]

----------------------------------------------------------------------------
(* Specification of closest_letter as a pure function *)

InitClosest ==
    /\ ciphertext = <<>>
    /\ shift_key = 0
    /\ cleartext = Ok(<<>>)
    /\ back = Ok(<<>>)
    /\ text_freq = Ok(<<>>)
    /\ shift_keys = Ok(<<>>)
    /\ printed = Ok(<<>>)
    /\ freq_percentage \in Percentages
    /\ closest = 0
    /\ cmd = <<>>
    /\ pc = "call"

ClosestCall ==
    /\ pc = "call"
    /\ closest' = closest_letter(freq_percentage)
    /\ pc' = "returned"
    /\ UNCHANGED <<ciphertext, shiftVars, evalVars, printed, freq_percentage, cmd>>

NextClosest == ClosestCall

SpecClosest == InitClosest /\ [][NextClosest]_vars

----------------------------------------------------------------------------
(* Specification of eval_ciphertext, statement by statement *)

InitEval ==
    /\ ciphertext \in EvalTexts
    /\ shift_key = 0
    /\ cleartext = Ok(<<>>)
    /\ back = Ok(<<>>)
    /\ text_freq = Ok(<<>>)
    /\ shift_keys = Ok(<<>>)
    /\ printed = Ok(<<>>)
    /\ freq_percentage = Zero
    /\ closest = 0
    /\ cmd = <<>>
    /\ pc = "eval"

\* ciphertext = ciphertext.upper(); text_freq = freq( ciphertext )
EvalFreq ==
    /\ pc = "eval"
    /\ text_freq' = freq(Upper(ciphertext))
    /\ pc' = IF text_freq'.err # "" THEN "raised" ELSE "freq_done"
    /\ UNCHANGED <<ciphertext, shiftVars, shift_keys, printed, closestVars, cmd>>

\* shift_keys = get_shift_keys( ciphertext, text_freq )
EvalKeys ==
    /\ pc = "freq_done"
    /\ shift_keys' = get_shift_keys(Upper(ciphertext), text_freq.val)
    /\ pc' = IF shift_keys'.err # "" THEN "raised" ELSE "keys_done"
    /\ UNCHANGED <<ciphertext, shiftVars, text_freq, printed, closestVars, cmd>>

\* the print statements, with shift( ciphertext, shift_keys[0] )
EvalPrint ==
    /\ pc = "keys_done"
    /\ shift_key' = shift_keys.val[1]
    /\ cleartext' = shift(Upper(ciphertext), shift_keys.val[1])
    /\ printed' = IF cleartext'.err # "" THEN Raise(cleartext'.err)
                  ELSE Ok([best |-> shift_keys.val[1], decoded |-> cleartext'.val,
                           alt1 |-> shift_keys.val[2], alt2 |-> shift_keys.val[3]])
    /\ pc' = IF cleartext'.err # "" THEN "raised" ELSE "printed"
    /\ UNCHANGED <<ciphertext, back, evalVars, closestVars, cmd>>

NextEval == EvalFreq \/ EvalKeys \/ EvalPrint

SpecEval == InitEval /\ [][NextEval]_vars

----------------------------------------------------------------------------
(* Claims about eval_ciphertext, freq and get_shift_keys *)

\* The text eval_ciphertext hands to freq and get_shift_keys
Normalized == Upper(ciphertext)

\* The shift a letter occurrence implies, read off the text and text_freq
Implied(i) == closest_letter(text_freq.val[Normalized[i]]) - Normalized[i]

ImpliedShifts == {Implied(i) : i \in AlphaPositions(Normalized)}

Votes(s) == Cardinality({i \in AlphaPositions(Normalized) : Implied(i) = s})

FirstAt(s) ==
    CHOOSE i \in AlphaPositions(Normalized) :
        /\ Implied(i) = s
        /\ \A j \in AlphaPositions(Normalized) : Implied(j) = s => i <= j

KeysReturned == pc \in {"keys_done", "printed"}
KeysLeft == pc \in {"keys_done", "printed"} \/ (pc = "raised" /\ text_freq.err = "")

\* C4: with at least 3 distinct implied shifts, get_shift_keys returns 3
\* distinct shifts in descending order of votes (one vote per letter
\* occurrence); no shift left out has more votes than a returned one, and
\* shifts with equal votes come in order of first occurrence in the text.
C4_RankedKeys ==
    (KeysLeft /\ Cardinality(ImpliedShifts) >= 3) =>
        /\ shift_keys.err = ""
        /\ LET r == shift_keys.val
           IN  /\ Len(r) = 3
               /\ \A j \in 1 .. 3 : r[j] \in ImpliedShifts
               /\ r[1] # r[2] /\ r[1] # r[3] /\ r[2] # r[3]
               /\ Votes(r[1]) >= Votes(r[2]) /\ Votes(r[2]) >= Votes(r[3])
               /\ \A j \in 1 .. 2 :
                      Votes(r[j]) = Votes(r[j + 1]) => FirstAt(r[j]) < FirstAt(r[j + 1])
               /\ \A s \in ImpliedShifts \ {r[1], r[2], r[3]} :
                      /\ Votes(s) <= Votes(r[3])
                      /\ Votes(s) = Votes(r[3]) => FirstAt(r[3]) < FirstAt(s)

\* C4 happens: four shifts, ranked by votes against their order of appearance
C4_Witness ==
    /\ KeysReturned
    /\ Cardinality(ImpliedShifts) >= 4
    /\ Votes(shift_keys.val[1]) > Votes(shift_keys.val[2])
    /\ Votes(shift_keys.val[2]) > Votes(shift_keys.val[3])
    /\ FirstAt(shift_keys.val[1]) > FirstAt(shift_keys.val[3])

\* C5: with fewer than 3 distinct implied shifts (none included)
\* get_shift_keys fails with the descriptive error "insufficient data to
\* estimate a shift key", not by indexing past the end of the ranked list.
C5_DescriptiveError ==
    (KeysLeft /\ Cardinality(ImpliedShifts) < 3) =>
        shift_keys.err = "insufficient data to estimate a shift key"

\* Occurrences of the letter l in the ciphertext, in either case
Occurrences(l) ==
    Cardinality({i \in 1 .. Len(ciphertext) : ciphertext[i] \in {l, l + 32}})

Letters ==
    Cardinality({i \in 1 .. Len(ciphertext) :
                    ciphertext[i] \in UpperLetters \cup LowerLetters})

RECURSIVE SumNum(_, _)
SumNum(f, l) == IF l > OrdZ THEN 0 ELSE f[l][1] + SumNum(f, l + 1)

Decodings ==
    {printed.val.decoded,
     shift(Normalized, printed.val.alt1).val,
     shift(Normalized, printed.val.alt2).val}

\* C8 as stated: evaluating "KHOOR ZRUOG" reports a best key of 3 (or -3)
\* and "HELLO WORLD" is the decoding under the best key or an alternate key.
C8_HelloWorldRecovered ==
    (pc \in {"printed", "raised"} /\ ciphertext = KhoorZruog) =>
        /\ printed.err = ""
        /\ printed.val.best \in {3, -3}
        /\ HelloWorld \in Decodings

\* C8 amended: evaluating "KHOOR ZRUOG" reports the best key -10 and the
\* alternates -13 and 9; none of the three decodes it to "HELLO WORLD",
\* which is shift("KHOOR ZRUOG", -3).
C8_KhoorKeys ==
    (pc \in {"printed", "raised"} /\ ciphertext = KhoorZruog) =>
        /\ printed.err = ""
        /\ printed.val.best = -10
        /\ printed.val.alt1 = -13
        /\ printed.val.alt2 = 9
        /\ HelloWorld \notin Decodings
        /\ shift(Normalized, -3) = Ok(HelloWorld)

C8_Witness == pc = "printed" /\ ciphertext = KhoorZruog /\ printed.err = ""

----------------------------------------------------------------------------
(* Claims about closest_letter *)

IndexOf(letter) == CHOOSE j \in 1 .. Len(StdOrder) : StdOrder[j] = letter

IsClosest(j) ==
    \A m \in 1 .. Len(StdOrder) :
        FreqDiff(j, freq_percentage) <= FreqDiff(m, freq_percentage)

----------------------------------------------------------------------------
(* main: the command lines it reads and how it takes them apart *)

Space == 32
Quote == 34
Minus == 45
Digits == 48 .. 57

StartsWith(s, prefix) ==
    /\ Len(s) >= Len(prefix)
    /\ SubSeq(s, 1, Len(prefix)) = prefix

ShiftWord == <<115, 104, 105, 102, 116, 32>>     \* "shift "
NewWord == <<110, 101, 119, 32, 34>>               \* 'new "'
QuitWords == {<<113>>, <<113, 117, 105, 116>>}   \* "q", "quit"

\* shift_pattern.match( cmd.lower() ): "shift -?\d+" matched at the start of
\* the line; what follows the digits is not looked at.
ShiftPatternMatches(s) ==
    /\ StartsWith(s, ShiftWord)
    /\ LET n == Len(ShiftWord)
       IN  \/ Len(s) > n /\ s[n + 1] \in Digits
           \/ Len(s) > n + 1 /\ s[n + 1] = Minus /\ s[n + 2] \in Digits

\* new_pattern.match( cmd.lower() ): 'new ".+"' matched at the start of the
\* line: at least one character (no newline) and then a closing quote.
NewPatternMatches(s) ==
    /\ StartsWith(s, NewWord)
    /\ \E j \in (Len(NewWord) + 2) .. Len(s) :
           /\ s[j] = Quote
           /\ \A i \in (Len(NewWord) + 1) .. (j - 1) : s[i] # 10

\* cmd.split( " " )[1]: what stands between the first space and the next
SecondField(s) ==
    LET spaces == {i \in 1 .. Len(s) : s[i] = Space}
        first == CHOOSE i \in spaces : \A j \in spaces : i <= j
        later == {i \in spaces : i > first}
        stop == IF later = {} THEN Len(s) + 1
                ELSE CHOOSE i \in later : \A j \in later : i <= j
    IN  SubSeq(s, first + 1, stop - 1)

RECURSIVE DecimalValue(_, _)
DecimalValue(ds, acc) ==
    IF ds = <<>> THEN acc ELSE DecimalValue(Tail(ds), 10 * acc + (Head(ds) - 48))

\* int( token ) for a token of ASCII digits, signs and other printable
\* characters: an optional sign and at least one digit, or ValueError
ParseInt(tok) ==
    LET signed == tok # <<>> /\ Head(tok) \in {Minus, 43}
        ds == IF signed THEN Tail(tok) ELSE tok
    IN  IF ds # <<>> /\ \A i \in 1 .. Len(ds) : ds[i] \in Digits
        THEN Ok(IF signed /\ Head(tok) = Minus
                THEN 0 - DecimalValue(ds, 0) ELSE DecimalValue(ds, 0))
        ELSE Raise("ValueError")

\* cmd[ 5 : -1 ]
QuotedText(s) == SubSeq(s, 6, Len(s) - 1)

----------------------------------------------------------------------------
(* The lines a user types *)

RECURSIVE Decimal(_)
Decimal(n) == IF n < 10 THEN <<48 + n>> ELSE Decimal(n \div 10) \o <<48 + (n % 10)>>

ShiftLine(k) == ShiftWord \o (IF k < 0 THEN <<Minus>> \o Decimal(0 - k) ELSE Decimal(k))
NewLine(t) == NewWord \o t \o <<Quote>>

\* "A", "C", "z", "5"
CmdAlphabet == {65, 67, 122, 53}
CmdTexts == SeqsUpTo(CmdAlphabet, MaxCmdLen) \cup {KhoorZruog, <<72, 101, 108, 108, 111>>}   \* ..., "Hello"
CmdKeys == (0 - MaxCmdKey) .. MaxCmdKey

QuitLines == QuitWords \cup {<<81, 117, 105, 116>>}          \* ..., "Quit"
HelpLines == {<<104>>, <<104, 101, 108, 112>>, <<>>}       \* "h", "help", ""
BadLines ==
    {<<115, 104, 105, 102, 116, 32, 51, 120>>,    \* "shift 3x"
     <<115, 104, 105, 102, 116, 32>>,                 \* "shift "
     <<115, 104, 105, 102, 116, 32, 120>>,            \* "shift x"
     <<83, 72, 73, 70, 84, 32, 50>>,         \* "SHIFT 2"
     <<115, 104, 105, 102, 116, 32, 50, 32, 53>>,    \* "shift 2 5"
     <<115, 104, 105, 102, 116, 32, 45, 57, 50>>,  \* "shift -92"
     <<110, 101, 119, 32, 34, 65, 67>>,          \* 'new "AC' (unterminated)
     <<110, 101, 119, 32, 34, 34>>,                  \* 'new ""'
     <<78, 69, 87, 32, 34, 97, 122, 34>>}        \* 'NEW "az"'

CmdLines ==
    QuitLines \cup HelpLines \cup BadLines
        \cup {ShiftLine(k) : k \in CmdKeys} \cup {NewLine(t) : t \in CmdTexts}

----------------------------------------------------------------------------
(* main *)

Shown(kind, out) == [kind |-> kind, out |-> out]

InitMain ==
    /\ ciphertext = <<>>
    /\ shift_key = 0
    /\ cleartext = Ok(<<>>)
    /\ back = Ok(<<>>)
    /\ text_freq = Ok(<<>>)
    /\ shift_keys = Ok(<<>>)
    /\ printed = Shown("banner", <<>>)
    /\ freq_percentage = Zero
    /\ closest = 0
    /\ cmd = <<>>
    /\ pc = "start"

\* len( sys.argv ) != 2: no file is read
StartPlain ==
    /\ pc = "start"
    /\ pc' = "prompt"
    /\ UNCHANGED <<ciphertext, shiftVars, evalVars, printed, closestVars, cmd>>

\* A file was named: its lines are concatenated and evaluated; whatever is
\* raised is caught and answered with "Error reading file."
StartFile ==
    /\ pc = "start"
    /\ \E contents \in CmdTexts :
           /\ ciphertext' = contents
           /\ printed' = IF eval_ciphertext(contents).err # ""
                         THEN Shown("file_error", <<>>)
                         ELSE Shown("eval", eval_ciphertext(contents).val)
    /\ pc' = "prompt"
    /\ UNCHANGED <<shiftVars, evalVars, closestVars, cmd>>

\* A file was named and open() raised
StartFileUnreadable ==
    /\ pc = "start"
    /\ printed' = Shown("file_error", <<>>)
    /\ pc' = "prompt"
    /\ UNCHANGED <<ciphertext, shiftVars, evalVars, closestVars, cmd>>

IsQuit(line) == Lower(line) \in QuitWords

CmdQuit ==
    /\ pc = "prompt"
    /\ \E line \in CmdLines :
           /\ IsQuit(line)
           /\ cmd' = line
    /\ pc' = "exited"
    /\ UNCHANGED <<ciphertext, shiftVars, evalVars, printed, closestVars>>

\* An exception nothing catches ends the process with a traceback
CmdShift ==
    /\ pc = "prompt"
    /\ \E line \in CmdLines :
           /\ ~IsQuit(line)
           /\ ShiftPatternMatches(Lower(line))
           /\ cmd' = line
           /\ LET amount == ParseInt(SecondField(line))
                  shown == shift(ciphertext, amount.val)
              IN  IF amount.err # ""
                  THEN /\ printed' = Shown("traceback", amount.err)
                       /\ pc' = "crashed"
                       /\ UNCHANGED <<shift_key, cleartext>>
                  ELSE /\ shift_key' = amount.val
                       /\ cleartext' = shown
                       /\ printed' = IF shown.err # "" THEN Shown("traceback", shown.err)
                                     ELSE Shown("shift", shown.val)
                       /\ pc' = IF shown.err # "" THEN "crashed" ELSE "prompt"
    /\ UNCHANGED <<ciphertext, back, evalVars, closestVars>>

CmdNew ==
    /\ pc = "prompt"
    /\ \E line \in CmdLines :
           /\ ~IsQuit(line)
           /\ ~ShiftPatternMatches(Lower(line))
           /\ NewPatternMatches(Lower(line))
           /\ cmd' = line
           /\ ciphertext' = Upper(QuotedText(line))
           /\ LET result == eval_ciphertext(ciphertext')
              IN  /\ printed' = IF result.err # "" THEN Shown("traceback", result.err)
                                ELSE Shown("eval", result.val)
                  /\ pc' = IF result.err # "" THEN "crashed" ELSE "prompt"
    /\ UNCHANGED <<shiftVars, evalVars, closestVars>>

CmdUsage ==
    /\ pc = "prompt"
    /\ \E line \in CmdLines :
           /\ ~IsQuit(line)
           /\ ~ShiftPatternMatches(Lower(line))
           /\ ~NewPatternMatches(Lower(line))
           /\ cmd' = line
    /\ printed' = Shown("usage", <<>>)
    /\ pc' = "prompt"
    /\ UNCHANGED <<ciphertext, shiftVars, evalVars, closestVars>>

NextMain ==
    \/ StartPlain
    \/ StartFile
    \/ StartFileUnreadable
    \/ CmdQuit
    \/ CmdShift
    \/ CmdNew
    \/ CmdUsage

Spec == InitMain /\ [][NextMain]_vars

----------------------------------------------------------------------------
(* Claims about the interactive session *)

\* C9: the session ends only when the user enters q or quit; every other
\* line (help, a shift command well-formed or with an invalid amount, a new
\* command with any quoted string) is handled and the prompt returns.
C9_EndsOnlyOnQuit ==
    pc \in {"exited", "crashed"} => (pc = "exited" /\ IsQuit(cmd))

\* C10: in every state of the session the stored ciphertext, loaded from a
\* file or set by a new command, holds no lowercase letter, so that a shift
\* command prints a letter A-Z at every letter position.
C10_StoredUppercase ==
    /\ \A i \in 1 .. Len(ciphertext) : ciphertext[i] \notin LowerLetters
    /\ printed.kind = "shift" =>
           \A i \in 1 .. Len(ciphertext) :
               IsAlpha(ciphertext[i]) => printed.out[i] \in UpperLetters

====
